---- MODULE Spec2Model ----
(***************************************************************************)
(* Model of the cayatex parser (src/src/parser.rs).  A Parser owns a byte  *)
(* buffer `source` and a cursor `idx`; parse_document scans the buffer and *)
(* calls parse_inline / parse_block on '[' and '{'.  Bytes are modelled by *)
(* their ASCII codes, offsets are 0-based as in the source (source[i+1] is *)
(* the byte at offset i).  Each action is one step of one rule; `pc` is    *)
(* the position of the (single-threaded) call stack.                       *)
(***************************************************************************)
EXTENDS Integers, Sequences, FiniteSets, TLC

VARIABLES source, idx, pc, exprs, start_idx, rule, open_idx, name_start, name, result

vars == <<source, idx, pc, exprs, start_idx, rule, open_idx, name_start, name, result>>

\* ---------------------------------------------------------------- bounds
MaxLen == 4

\* ---------------------------------------------------------------- bytes
LBracket == 91
RBracket == 93
LBrace == 123
RBrace == 125
Pipe == 124
Space == 32
LetterA == 97
Digit1 == 49
Period == 46

Alphabet == {LBracket, RBracket, LBrace, RBrace, Pipe, Space, LetterA, Digit1, Period}

\* "[bold", "{box", "{box|", "[bold]" and the buffer main() parses
BoldOpen == <<91, 98, 111, 108, 100>>
BoxOpen == <<123, 98, 111, 120>>
BoxPipe == <<123, 98, 111, 120, 124>>
BoldClosed == <<91, 98, 111, 108, 100, 93>>
MainInput == <<104, 101, 108, 108, 111, 32, 119, 111, 114, 108, 100, 32, 91, 98, 111, 108, 100>>

Examples == {BoldOpen, BoxOpen, BoxPipe, BoldClosed, MainInput}

Inputs == (UNION {[1..n -> Alphabet] : n \in 0..MaxLen}) \cup Examples

None == -1

\* u8::is_ascii_whitespace: space, tab, line feed, form feed, carriage return
is_ascii_whitespace(c) == c \in {32, 9, 10, 12, 13}

is_ascii_alphabetic(c) == (c \in 65..90) \/ (c \in 97..122)

is_ascii_alphanumeric(c) == is_ascii_alphabetic(c) \/ (c \in 48..57)

\* char::from_digit(num, radix): None unless num is a digit in the radix
from_digit(num, radix) ==
  IF num < radix THEN (IF num < 10 THEN 48 + num ELSE 97 + (num - 10)) ELSE None

\* ---------------------------------------------------------------- values
Loc(start, end, inner) == [range |-> <<start, end>>, inner |-> inner]

Text(start, end) == [kind |-> "Text", span |-> <<start, end>>]

Inline(n) == [kind |-> "Inline", name |-> n, args |-> <<>>, body |-> <<>>]

Block(n) == [kind |-> "Block", name |-> n, args |-> <<>>, body |-> <<>>]

UnmatchedRightBracket == [kind |-> "UnmatchedRightBracket"]

EndOfFile(expected) == [kind |-> "EndOfFile", expected |-> expected]

UnexpectedChar(expected, received) ==
  [kind |-> "UnexpectedChar", expected |-> expected, received |-> received]

\* strings: a literal, a char rendered by char::to_string, a u8 rendered by u8::to_string
Str(s) == <<"str", s>>

CharToString(c) == <<"char", c>>

U8ToString(c) == <<"decimal", c>>

Ok(v) == [kind |-> "Ok", exprs |-> v]

Err(e) == [kind |-> "Err", err |-> e]

Panic == [kind |-> "Panic"]

Pending == [kind |-> "Pending"]

\* ---------------------------------------------------------------- cursor
\* the byte peek / bump return at cursor i (None at end-of-input)
Peek(i) == IF i < Len(source) THEN source[i + 1] ELSE None

BumpIdx_off(i) == i + 1

\* the cursor after bump
BumpIdx(i) == IF i < Len(source) THEN i + 1 ELSE i

\* ---------------------------------------------------------------- rules
IsRightBracket_mut(c) == c = RBracket

IsRightBracket(c) == c = RBracket \/ c = RBrace

DocumentOk_flush(ex, s) == Ok(Append(ex, Loc(s, Len(source), Text(s, Len(source)))))

\* the value parse_document returns when the loop runs out of input
DocumentOk(ex, s) == Ok(ex)

\* where the next text run starts after a directive node
NextTextStart(node) == node.range[2] + 1

NameSpanAtEof_len(s) == <<s, Len(source)>>

\* the span parse_name returns when the name runs to the end of the buffer
NameSpanAtEof(s) == <<s, Len(source) - 1>>

InlineLoc(open, n) == Loc(open, n[2], Inline(n))

BlockLoc_pipe(open, n, cur) == Loc(open, cur, Block(n))

\* the node parse_block returns; cur is the cursor after the pipe
BlockLoc(open, n, cur) == Loc(open, n[2], Block(n))

Init ==
  /\ source \in Inputs
  /\ idx = 0
  /\ pc = "document"
  /\ exprs = <<>>
  /\ start_idx = 0
  /\ rule = "none"
  /\ open_idx = 0
  /\ name_start = 0
  /\ name = <<0, 0>>
  /\ result = Pending

\* one iteration of parse_document's `while let Some((idx, c)) = self.bump()`
Document ==
  /\ pc = "document"
  /\ idx' = BumpIdx(idx)
  /\ LET c == Peek(idx) IN
     IF c = None
       THEN /\ result' = DocumentOk(exprs, start_idx)
            /\ pc' = "done"
            /\ UNCHANGED <<exprs, rule, open_idx>>
     ELSE IF c = LBracket \/ c = LBrace
       THEN /\ exprs' = Append(exprs, Loc(start_idx, idx, Text(start_idx, idx)))
            /\ rule' = (IF c = LBracket THEN "inline" ELSE "block")
            /\ open_idx' = idx
            /\ pc' = "ws1"
            /\ UNCHANGED result
     ELSE IF IsRightBracket(c)
       THEN /\ result' = Err(Loc(idx, idx, UnmatchedRightBracket))
            /\ pc' = "done"
            /\ UNCHANGED <<exprs, rule, open_idx>>
     ELSE /\ UNCHANGED <<exprs, rule, open_idx, result, pc>>
  /\ UNCHANGED <<source, start_idx, name_start, name>>

\* one iteration of take_whitespace, called before and after parse_name
TakeWhitespace ==
  /\ pc \in {"ws1", "ws2"}
  /\ LET c == Peek(idx) IN
     IF c # None /\ is_ascii_whitespace(c)
       THEN /\ idx' = BumpIdx(idx)
            /\ UNCHANGED pc
       ELSE /\ UNCHANGED idx
            /\ pc' = (IF pc = "ws1" THEN "name"
                      ELSE IF rule = "inline" THEN "inline_ret" ELSE "expect")
  /\ UNCHANGED <<source, exprs, start_idx, rule, open_idx, name_start, name, result>>

\* parse_name up to its loop: the first byte must be a letter
ParseNameFirst ==
  /\ pc = "name"
  /\ idx' = BumpIdx(idx)
  /\ LET c == Peek(idx) IN
     IF c = None
       THEN /\ result' = Err(Loc(Len(source), Len(source), EndOfFile(Str("name"))))
            /\ pc' = "done"
            /\ UNCHANGED name_start
     ELSE IF ~is_ascii_alphabetic(c)
       THEN /\ result' = Err(Loc(idx, idx, UnexpectedChar(Str("letter"), U8ToString(c))))
            /\ pc' = "done"
            /\ UNCHANGED name_start
     ELSE /\ name_start' = idx
          /\ pc' = "name_loop"
          /\ UNCHANGED result
  /\ UNCHANGED <<source, exprs, start_idx, rule, open_idx, name>>

\* one iteration of parse_name's `while let Some((idx, c)) = self.peek()`
ParseNameLoop ==
  /\ pc = "name_loop"
  /\ LET c == Peek(idx) IN
     IF c = None
       THEN /\ name' = NameSpanAtEof(name_start)
            /\ pc' = "ws2"
            /\ UNCHANGED idx
     ELSE IF is_ascii_alphanumeric(c)
       THEN /\ idx' = BumpIdx(idx)
            /\ UNCHANGED <<name, pc>>
     ELSE /\ name' = <<name_start, idx>>
          /\ pc' = "ws2"
          /\ UNCHANGED idx
  /\ UNCHANGED <<source, exprs, start_idx, rule, open_idx, name_start, result>>

\* parse_inline returns its node; parse_document records it
InlineReturn ==
  /\ pc = "inline_ret"
  /\ LET inline_expr == InlineLoc(open_idx, name) IN
       /\ start_idx' = NextTextStart(inline_expr)
       /\ exprs' = Append(exprs, inline_expr)
  /\ rule' = "none"
  /\ pc' = "document"
  /\ UNCHANGED <<source, idx, open_idx, name_start, name, result>>

\* expect_char(b'|') in parse_block, then parse_block returns its node
ExpectChar ==
  /\ pc = "expect"
  /\ idx' = BumpIdx(idx)
  /\ LET c == Peek(idx) IN
     IF c = None
       THEN /\ result' = (IF Len(source) = 0 \/ from_digit(Pipe, 10) = None
                            THEN Panic
                            ELSE Err(Loc(Len(source) - 1, Len(source) - 1,
                                         EndOfFile(CharToString(from_digit(Pipe, 10))))))
            /\ pc' = "done"
            /\ UNCHANGED <<exprs, start_idx, rule>>
     ELSE IF c # Pipe
       THEN /\ result' = Err(Loc(idx, idx, UnexpectedChar(CharToString(Pipe), CharToString(c))))
            /\ pc' = "done"
            /\ UNCHANGED <<exprs, start_idx, rule>>
     ELSE LET block_expr == BlockLoc(open_idx, name, idx') IN
            /\ start_idx' = NextTextStart(block_expr)
            /\ exprs' = Append(exprs, block_expr)
            /\ rule' = "none"
            /\ pc' = "document"
            /\ UNCHANGED result
  /\ UNCHANGED <<source, open_idx, name_start, name>>

Next ==
  \/ Document
  \/ TakeWhitespace
  \/ ParseNameFirst
  \/ ParseNameLoop
  \/ InlineReturn
  \/ ExpectChar

Spec == Init /\ [][Next]_vars

TypeOK ==
  /\ pc \in {"document", "ws1", "name", "name_loop", "ws2", "inline_ret", "expect", "done"}
  /\ result.kind \in {"Pending", "Ok", "Err", "Panic"}
  /\ (pc = "done") <=> (result.kind # "Pending")

\* ---------------------------------------------------------------- properties
\* the byte at offset i of the buffer
ByteAt(i) == source[i + 1]

Offsets == 0..Len(source)

Structural == {91, 93, 123, 125}

WsBytes == {9, 10, 12, 13, 32}

LetterBytes == (65..90) \cup (97..122)

AlnumBytes == LetterBytes \cup (48..57)

\* no '[', '{', ']' or '}' at the offsets a..b-1
CleanRange(a, b) == \A i \in a..(b - 1) : ByteAt(i) \notin Structural

WsRange(a, b) == \A i \in a..(b - 1) : ByteAt(i) \in WsBytes

AlnumRange(a, b) == \A i \in a..(b - 1) : ByteAt(i) \in AlnumBytes

\* bracket-free text, then `open` at offset o, whitespace, and a name starting at n
\* whose bytes run up to offset e (exclusive)
OpensDirective(open, o, n, e) ==
  /\ o < n /\ n < e /\ e <= Len(source)
  /\ CleanRange(0, o)
  /\ ByteAt(o) = open
  /\ WsRange(o + 1, n)
  /\ ByteAt(n) \in LetterBytes
  /\ AlnumRange(n, e)

\* the buffer ends while the name of an inline directive is being read
EndsInInlineName(o, n) == OpensDirective(91, o, n, Len(source))

\* the buffer ends after the name of a block directive and optional whitespace
EndsAfterBlockName(o, n, e) ==
  /\ OpensDirective(123, o, n, e)
  /\ (e < Len(source) => ByteAt(e) \in WsBytes)
  /\ WsRange(e, Len(source))

\* the name of a block directive at n..e is followed by whitespace and a pipe at p
BlockUpToPipe(o, n, e, p) ==
  /\ OpensDirective(123, o, n, e)
  /\ e <= p /\ p < Len(source)
  /\ WsRange(e, p)
  /\ ByteAt(p) = 124

RangeOk(r) == 0 <= r[1] /\ r[1] <= r[2] /\ r[2] <= Len(source)

NodeOk(node) ==
  /\ RangeOk(node.range)
  /\ IF node.inner.kind = "Text" THEN RangeOk(node.inner.span) ELSE RangeOk(node.inner.name)

\* C1: every located value parse_document returns (each node of an Ok result, each
\* name span inside a directive node, the located error of an Err result) has a
\* range with start <= end and both bounds within 0..=len(input).
C1_RangesValid ==
  pc = "done" =>
    /\ (result.kind = "Ok" => \A k \in 1..Len(result.exprs) : NodeOk(result.exprs[k]))
    /\ (result.kind = "Err" => RangeOk(result.err.range))

\* C2 as stated: when the input ends while an inline directive's name is being read,
\* parse_document fails with an EndOfFile error located at or near the final offset.
C2_InlineNameAtEofFails ==
  pc = "done" =>
    \A o \in Offsets : \A n \in Offsets :
      EndsInInlineName(o, n) =>
        /\ result.kind = "Err"
        /\ result.err.inner.kind = "EndOfFile"
        /\ result.err.range[1] >= Len(source) - 1

\* C2 amended: for bracket-free text followed by '[', optional whitespace and a name
\* (a letter, then alphanumerics) that runs to the last byte, parse_document returns
\* Ok with the Text node 0..o and the Inline node o..len-1 whose name span is
\* n..len-1; no EndOfFile error is raised.
C2_InlineNameAtEofOk ==
  pc = "done" =>
    \A o \in Offsets : \A n \in Offsets :
      EndsInInlineName(o, n) =>
        result = [kind |-> "Ok",
                  exprs |-> << [range |-> <<0, o>>,
                                inner |-> [kind |-> "Text", span |-> <<0, o>>]],
                               [range |-> <<o, Len(source) - 1>>,
                                inner |-> [kind |-> "Inline",
                                           name |-> <<n, Len(source) - 1>>,
                                           args |-> <<>>, body |-> <<>>]] >>]

C2_Witness ==
  /\ pc = "done"
  /\ source = MainInput
  /\ result.kind = "Ok"
  /\ Len(result.exprs) = 2
  /\ result.exprs[2].inner.kind = "Inline"

\* C3: when a '{' is followed by optional whitespace, a valid name, optional
\* whitespace and then end-of-input, parse_document returns Err with an EndOfFile
\* error whose expected token is the pipe character.
C3_BlockEofExpectsPipe ==
  pc = "done" =>
    \A o \in Offsets : \A n \in Offsets : \A e \in Offsets :
      EndsAfterBlockName(o, n, e) =>
        /\ result.kind = "Err"
        /\ result.err.inner.kind = "EndOfFile"
        /\ result.err.inner.expected = <<"char", 124>>

\* C4: whenever the document loop consumes a ']' or '}' at offset idx, the parse
\* ends with Err(UnmatchedRightBracket) located at idx..idx and no nodes; a bare
\* "]" fails at 0..0 and "[bold]" fails at 5..5.
C4_UnmatchedRightBracket ==
  /\ [][ (pc = "document" /\ idx < Len(source) /\ ByteAt(idx) \in {93, 125}) =>
           /\ pc' = "done"
           /\ result' = [kind |-> "Err",
                         err |-> [range |-> <<idx, idx>>,
                                  inner |-> [kind |-> "UnmatchedRightBracket"]]] ]_vars
  /\ [](pc = "done" /\ source = <<93>> =>
          result = [kind |-> "Err",
                    err |-> [range |-> <<0, 0>>,
                             inner |-> [kind |-> "UnmatchedRightBracket"]]])
  /\ [](pc = "done" /\ source = BoldClosed =>
          result = [kind |-> "Err",
                    err |-> [range |-> <<5, 5>>,
                             inner |-> [kind |-> "UnmatchedRightBracket"]]])

C4_Witness ==
  /\ pc = "done"
  /\ source = BoldClosed
  /\ Len(exprs) = 2
  /\ result.kind = "Err"
  /\ result.err.inner.kind = "UnmatchedRightBracket"
  /\ result.err.range = <<5, 5>>

\* C5: for every input without '[', '{', ']' and '}' (the empty input included),
\* parse_document returns Ok with an empty node sequence: no trailing Text node.
C5_NoDirectivesNoNodes ==
  (pc = "done" /\ CleanRange(0, Len(source))) => result = [kind |-> "Ok", exprs |-> <<>>]

C5_Witness ==
  /\ pc = "done"
  /\ Len(source) >= 2
  /\ CleanRange(0, Len(source))
  /\ result.kind = "Ok"

\* C6: for '{' at offset o followed by optional whitespace, a name, optional
\* whitespace and '|', the block rule succeeds: once the pipe is consumed the
\* second node is a Block whose name span is exactly the name's bytes, whose range
\* is [o, name.end) (the pipe excluded) and whose args and body are empty.
C6_BlockNode ==
  \A o \in Offsets :
    (o < Len(source) /\ o < idx /\ ByteAt(o) = 123 /\ CleanRange(0, o)) =>
      \A p \in Offsets :
        (o < p /\ p < idx /\ ByteAt(p) = 124) =>
          \A n \in Offsets : \A e \in Offsets :
            BlockUpToPipe(o, n, e, p) =>
              /\ Len(exprs) >= 2
              /\ exprs[2] = [range |-> <<o, e>>,
                             inner |-> [kind |-> "Block", name |-> <<n, e>>,
                                        args |-> <<>>, body |-> <<>>]]

C6_Witness ==
  /\ pc = "done"
  /\ source = BoxPipe
  /\ result.kind = "Ok"
  /\ Len(result.exprs) = 2
  /\ result.exprs[2].inner.kind = "Block"
  /\ result.exprs[2].inner.name = <<1, 4>>

\* C7: every name span the name rule returns successfully is non-empty
\* (start < end), a one-letter name that is the last byte of the input included.
C7_NameNonEmpty ==
  pc \in {"ws2", "inline_ret", "expect"} => name[1] < name[2]

\* C8: parse_document ends in exactly one of Ok(nodes) or Err(located error); no
\* input drives a rule into an abnormal stop (panic, underflow, out-of-bounds).
C8_OkOrErr ==
  pc = "done" => result.kind \in {"Ok", "Err"}

\* C9: the cursor starts at 0, stays within 0..len(input) and never decreases; a
\* step moves it by at most one, only when idx < len, and take_whitespace moves it
\* only past ASCII-whitespace bytes.
C9_Cursor ==
  /\ idx = 0
  /\ [](0 <= idx /\ idx <= Len(source))
  /\ [][ /\ idx' \in {idx, idx + 1}
         /\ (idx' = idx + 1 => idx < Len(source))
         /\ (idx = Len(source) => idx' = idx)
         /\ (pc \in {"ws1", "ws2"} /\ idx' # idx => ByteAt(idx) \in WsBytes) ]_vars

C9_Witness ==
  /\ pc = "done"
  /\ result.kind = "Ok"
  /\ idx = Len(source)
  /\ Len(source) >= 3
  /\ ByteAt(Len(source) - 1) \in WsBytes
  /\ Len(exprs) = 2

RECURSIVE SkipWs(_)
\* the first offset at or after i that holds no whitespace byte
SkipWs(i) == IF i < Len(source) /\ ByteAt(i) \in WsBytes THEN SkipWs(i + 1) ELSE i

\* the cursor when the rule that produced the directive node returned
RuleEnd(node) ==
  LET e == node.inner.name[2]
      afterName == IF e < Len(source) /\ ByteAt(e) \in AlnumBytes THEN Len(source) ELSE SkipWs(e)
  IN  IF node.inner.kind = "Block" THEN afterName + 1 ELSE afterName

\* C10: in every Ok result each Text span starts at the first byte after the bytes
\* the preceding directive rule consumed (offset 0 for the first one) and ends at
\* the offset of the next opening '[' or '{'.
C10_TextCoversUnconsumed ==
  (pc = "done" /\ result.kind = "Ok") =>
    \A k \in 1..Len(result.exprs) :
      result.exprs[k].inner.kind = "Text" =>
        /\ result.exprs[k].inner.span[1] = (IF k = 1 THEN 0 ELSE RuleEnd(result.exprs[k - 1]))
        /\ result.exprs[k].inner.span[2] < Len(source)
        /\ ByteAt(result.exprs[k].inner.span[2]) \in {91, 123}
====
